---------------------------- MODULE Spec2Model ----------------------------
(***************************************************************************)
(* Model of src/native/portaudio.cc: the stream registry (g_streams,       *)
(* g_nextStreamId), the blocking write path, the two process-wide          *)
(* ThreadSafeFunction bindings (g_audioCallbackTsfn, g_eventCallbackTsfn)  *)
(* and the PortAudio real-time callback (AudioCallback).                   *)
(*                                                                         *)
(* Two threads are modelled.  The JavaScript main thread runs the exported *)
(* functions and the N-API dispatch of queued thread-safe calls; each      *)
(* exported function is one atomic action.  The PortAudio real-time thread *)
(* runs AudioCallback, one action per statement, so that main-thread       *)
(* actions interleave between its statements.                              *)
(*                                                                         *)
(* Arguments are taken after the N-API type checks (IsNumber, IsFunction,  *)
(* IsBuffer ...) and after the Uint32Value/Int32Value conversions.         *)
(***************************************************************************)
EXTENDS Integers, Sequences, FiniteSets, TLC

(* ------------------------------ bounds --------------------------------- *)
\* successful opens in one run (caps g_nextStreamId and the backend handles)
MaxOpens == 2
\* ThreadSafeFunctions created in one run
MaxTsfn == 2
\* real-time periods (AudioCallback invocations) in one run
MaxPeriods == 2
\* longest sample buffer handed to writeStream
MaxLen == 2
\* Pa_Initialize reference count
MaxInit == 1

(* --------------------------- float values ------------------------------ *)
\* A float is a record: nan, or the value h/2.  Every value used is a small
\* dyadic rational, on which binary32 arithmetic is exact.
F(n) == [nan |-> FALSE, h |-> n]
NaN == [nan |-> TRUE, h |-> 0]

\* the comparisons of lines 285, 505, 507: false whenever an operand is NaN
FLess(a, b) == ~a.nan /\ ~b.nan /\ a.h < b.h
FGreater(a, b) == ~a.nan /\ ~b.nan /\ a.h > b.h
FNotEqual(a, b) == a.nan \/ b.nan \/ a.h # b.h

\* data[i] *= volume (line 289); sample values are whole numbers, so the
\* product of the halves is even and the division is exact
FMul(a, b) == IF a.nan \/ b.nan THEN NaN ELSE F((a.h * b.h) \div 2)

\* volumes a caller passes to setStreamVolume: -0.5, 1.0, 2.0, 2.5, NaN
VolumeInputs == {F(n) : n \in {-1, 2, 4, 5}} \cup {NaN}
\* sample values: -1.0 and 2.0
SampleValues == {F(-2), F(4)}
SampleBuffers == UNION {[1..n -> SampleValues] : n \in 0..MaxLen}

\* info[1].As<Napi::Number>().FloatValue() (line 504): the double narrowed to
\* binary32.  NaN stays NaN; every other input of VolumeInputs is exactly
\* representable in binary32 and is unchanged by the narrowing.
FloatValue(v) == IF v.nan THEN NaN ELSE F(v.h)

(* ------------------------------ state ---------------------------------- *)
VARIABLES
  g_streams,            \* id -> [stream, volume]           (line 20)
  g_nextStreamId,       \* next id to hand out              (line 21)
  g_audioCallbackTsfn,  \* 0 (null) or the owned tsfn       (line 9)
  g_eventCallbackTsfn,  \* 0 (null) or the owned tsfn       (line 12)
  tsfns,                \* every ThreadSafeFunction created so far
  pa,                   \* the backend's streams, by handle: state, channels,
                        \* userData, closes (successful Pa_CloseStream
                        \* calls), closeCalls (all Pa_CloseStream calls)
  paInit,               \* Pa_Initialize reference count
  rt,                   \* the real-time thread's position in AudioCallback
  crashed,              \* the process died on undefined behaviour
  lastOp,               \* the last exported call: arguments, result and
                        \* steps, the calls it made in program order
  periods,              \* history: one record per AudioCallback invocation,
                        \* with the volumes its stream had while the fill
                        \* was pending (vols) and the output buffer as the
                        \* fill handler left it (out)
  returnedIds,          \* history: ids returned by successful opens
  closedIds,            \* history: ids removed by closeStream
  releasedByClose       \* history: tsfns released by closeStream

vars == <<g_streams, g_nextStreamId, g_audioCallbackTsfn, g_eventCallbackTsfn,
          tsfns, pa, paInit, rt, crashed, lastOp, periods,
          returnedIds, closedIds, releasedByClose>>

NoOp == [op |-> "none", id |-> 0, result |-> "ok"]

\* one entry of lastOp.steps: a call the exported function made, and the
\* backend stream (or 0) it was made on
Step(call, h) == [call |-> call, h |-> h]

RtIdle ==
  [pc |-> "idle", h |-> 0, flags |-> {}, status |-> "none", i |-> 0, evp |-> 0]

Init ==
  /\ g_streams = <<>>
  /\ g_nextStreamId = 1
  /\ g_audioCallbackTsfn = 0
  /\ g_eventCallbackTsfn = 0
  /\ tsfns = <<>>
  /\ pa = <<>>
  /\ paInit = 0
  /\ rt = RtIdle
  /\ crashed = FALSE
  /\ lastOp = NoOp
  /\ periods = <<>>
  /\ returnedIds = <<>>
  /\ closedIds = {}
  /\ releasedByClose = {}


(* ------------------- Napi::ThreadSafeFunction ------------------------- *)
\* Napi::ThreadSafeFunction::New(env, jsCallback, name, 0, 1) (lines 393,
\* 436): maxQueueSize 0 (unbounded queue), initialThreadCount 1.  The
\* handler bound is identified with the index of the new entry; ran is the
\* history of the calls that handler has served.
TsfnNew(ts) ==
  Append(ts, [thread_count |-> 1, closed |-> FALSE, queue |-> <<>>,
              ran |-> <<>>])

\* tsfn->Release() (lines 60, 65, 323, 328, 389, 450, 459): the only thread
\* leaves; calls already queued are still dispatched, the function is
\* closed by the dispatch that finds the queue empty.
TsfnRelease(ts, t) == [ts EXCEPT ![t].thread_count = 0]

\* the status of tsfn->BlockingCall(...) (lines 344, 363) on a function the
\* caller still owns: the queue is unbounded, so the call never waits
TsfnCallStatus(ts, t) == IF ts[t].closed THEN "napi_closing" ELSE "napi_ok"

\* the queue after tsfn->BlockingCall(...): the call is appended, nothing
\* waits for the handler to run
TsfnCallQueue(ts, t, call) ==
  IF ts[t].closed THEN ts ELSE [ts EXCEPT ![t].queue = Append(@, call)]

\* both unique_ptrs released and reset (lines 58-67, 321-330)
ReleaseBindings(ts) ==
  LET a == IF g_audioCallbackTsfn # 0
             THEN TsfnRelease(ts, g_audioCallbackTsfn) ELSE ts
  IN IF g_eventCallbackTsfn # 0 THEN TsfnRelease(a, g_eventCallbackTsfn) ELSE a

(* ---------------------------- backend ---------------------------------- *)
\* devices the backend reports
NumDevices == 1

\* Pa_GetDeviceCount() (line 171): paNotInitialized (-10000) before
\* Pa_Initialize
Pa_GetDeviceCount == IF paInit > 0 THEN NumDevices ELSE 0 - 10000

\* Pa_GetDefaultOutputDevice() (line 413)
Pa_GetDefaultOutputDevice == IF paInit > 0 THEN 0 ELSE 0 - 1

\* whether Pa_OpenStream / Pa_OpenDefaultStream can succeed at all
PaCanOpen(device, channels, sampleRate) ==
  /\ paInit > 0
  /\ device >= 0 /\ device < NumDevices
  /\ channels > 0
  /\ sampleRate > 0

\* the entry of a stream the backend opened and started
PaStarted(channels, userData) ==
  [state |-> "active", channels |-> channels, userData |-> userData,
   closes |-> 0, closeCalls |-> 0]

\* a stream that failed to start and was left open
PaStartFailedLeftOpen(channels, userData) == PaStarted(channels, userData)

\* the entry of a stream that was opened, failed to start and was closed
\* (lines 145, 220, 458)
PaStartFailed(channels, userData) ==
  [state |-> "closed", channels |-> channels, userData |-> userData,
   closes |-> 1, closeCalls |-> 1]

\* GetStreamInfoById (lines 24-28)
GetStreamInfoById(id) == id \in DOMAIN g_streams

\* g_streams[streamId] = {stream, 1.0f} (lines 149, 226, 465)
Register(id, stream) ==
  (id :> [stream |-> stream, volume |-> F(2)]) @@ g_streams

\* an erase that removes nothing
EraseNothing(id) == g_streams

\* g_streams.erase(streamId) (line 320)
Erase(id) == [k \in DOMAIN g_streams \ {id} |-> g_streams[k]]

(* ------------------- main thread: lifecycle ---------------------------- *)
\* Init (lines 31-41); named Initialize, Init being the initial predicate
Initialize(ok) ==
  /\ ~crashed
  /\ paInit < MaxInit
  /\ paInit' = IF ok THEN paInit + 1 ELSE paInit
  /\ lastOp' = [op |-> "init", id |-> 0,
                result |-> IF ok THEN "ok" ELSE "BackendError"]
  /\ UNCHANGED <<g_streams, g_nextStreamId, g_audioCallbackTsfn,
                 g_eventCallbackTsfn, tsfns, pa, rt, crashed, periods,
                 returnedIds, closedIds, releasedByClose>>

\* the common tail of a failed open: nothing registered
OpenFailed(op, args, result, steps) ==
  /\ lastOp' = [op |-> op, id |-> 0, result |-> result, args |-> args,
                steps |-> steps]
  /\ UNCHANGED <<g_streams, g_nextStreamId, returnedIds>>

\* a counter that is never advanced
NextIdStuck(id) == id

\* g_nextStreamId++ (lines 148, 225, 464) on a uint32_t; the wrap at 2^32 is
\* beyond MaxOpens
NextId(id) == id + 1

\* the common tail of a successful open (lines 148-150, 225-227, 464-466)
OpenSucceeded(op, args, channels, userData, steps) ==
  /\ pa' = Append(pa, PaStarted(channels, userData))
  /\ g_streams' = Register(g_nextStreamId, Len(pa) + 1)
  /\ g_nextStreamId' = NextId(g_nextStreamId)
  /\ returnedIds' = Append(returnedIds, g_nextStreamId)
  /\ lastOp' = [op |-> op, id |-> g_nextStreamId, result |-> "ok",
                args |-> args, steps |-> steps]

\* the calls of a blocking open, by outcome: the open primitive alone when
\* it fails (lines 135-139, 211-216); open, start and the close of the
\* stream that did not start (lines 140-146, 217-224); open, start and the
\* registration (lines 148-149, 225-226)
BlockingOpenSteps(primitive, opened, started) ==
  LET h == Len(pa) + 1
  IN IF ~opened THEN <<Step(primitive, 0)>>
     ELSE IF ~started
       THEN <<Step(primitive, h), Step("Pa_StartStream", h),
              Step("Pa_CloseStream", h)>>
     ELSE <<Step(primitive, h), Step("Pa_StartStream", h), Step("register", h)>>

\* OpenDefaultStream (lines 118-151)
OpenDefaultStream(openOk, startOk) ==
  /\ ~crashed
  /\ Len(pa) < MaxOpens
  /\ LET opened == openOk /\ PaCanOpen(Pa_GetDefaultOutputDevice, 2, 44100)
         steps == BlockingOpenSteps("Pa_OpenDefaultStream", opened, startOk)
     IN IF Cardinality(DOMAIN g_streams) > 0
          THEN /\ OpenFailed("openDefaultStream", <<>>, "AlreadyOpen", <<>>)
               /\ pa' = pa
        ELSE IF ~opened
          THEN /\ OpenFailed("openDefaultStream", <<>>, "BackendError", steps)
               /\ pa' = pa
        ELSE IF ~startOk
          THEN /\ OpenFailed("openDefaultStream", <<>>, "BackendError", steps)
               /\ pa' = Append(pa, PaStartFailed(2, 0))
        ELSE OpenSucceeded("openDefaultStream", <<>>, 2, 0, steps)
  /\ UNCHANGED <<g_audioCallbackTsfn, g_eventCallbackTsfn, tsfns, paInit, rt,
                 crashed, periods, closedIds, releasedByClose>>

\* a validation that forgets the framesPerBuffer test
RejectedExceptFrames(deviceIndex, sampleRate, channels, framesPerBuffer) ==
  \/ deviceIndex < 0 \/ deviceIndex >= Pa_GetDeviceCount
  \/ channels <= 0
  \/ sampleRate <= 0

\* the argument tests of OpenStream (lines 170-192)
Rejected(deviceIndex, sampleRate, channels, framesPerBuffer) ==
  \/ deviceIndex < 0 \/ deviceIndex >= Pa_GetDeviceCount
  \/ channels <= 0
  \/ sampleRate <= 0
  \/ framesPerBuffer = 0

\* OpenStream (lines 154-234).  There is no g_streams.size() test here.
OpenStream(deviceIndex, sampleRate, channels, framesPerBuffer, openOk, startOk) ==
  /\ ~crashed
  /\ Len(pa) < MaxOpens
  /\ LET args == <<deviceIndex, sampleRate, channels, framesPerBuffer>>
         opened == openOk /\ PaCanOpen(deviceIndex, channels, sampleRate)
         steps == BlockingOpenSteps("Pa_OpenStream", opened, startOk)
     IN IF Rejected(deviceIndex, sampleRate, channels, framesPerBuffer)
          THEN /\ OpenFailed("openStream", args, "InvalidArgument", <<>>)
               /\ pa' = pa
        ELSE IF ~opened
          THEN /\ OpenFailed("openStream", args, "BackendError", steps)
               /\ pa' = pa
        ELSE IF ~startOk
          THEN /\ OpenFailed("openStream", args, "BackendError", steps)
               /\ pa' = Append(pa, PaStartFailed(channels, 0))
        ELSE OpenSucceeded("openStream", args, channels, 0, steps)
  /\ UNCHANGED <<g_audioCallbackTsfn, g_eventCallbackTsfn, tsfns, paInit, rt,
                 crashed, periods, closedIds, releasedByClose>>

\* a bind that comes after the stream was started
AsyncOpenStepsBindLate(opened, started) ==
  LET h == Len(pa) + 1
  IN IF ~opened
       THEN <<Step("Pa_OpenStream", 0), Step("bindFill", 0),
              Step("releaseFill", 0)>>
     ELSE IF ~started
       THEN <<Step("Pa_OpenStream", h), Step("Pa_StartStream", h),
              Step("bindFill", h), Step("Pa_CloseStream", h),
              Step("releaseFill", h)>>
     ELSE <<Step("Pa_OpenStream", h), Step("Pa_StartStream", h),
            Step("bindFill", h), Step("register", h)>>

\* the calls of OpenStreamAsync past the size test, by outcome: the fill
\* function is bound first (lines 435-436), then the stream is opened (lines
\* 438-447) and started (line 455); a failure closes the stream that did not
\* start and releases the function (lines 448-463)
AsyncOpenSteps(opened, started) ==
  LET h == Len(pa) + 1
  IN IF ~opened
       THEN <<Step("bindFill", 0), Step("Pa_OpenStream", 0),
              Step("releaseFill", 0)>>
     ELSE IF ~started
       THEN <<Step("bindFill", h), Step("Pa_OpenStream", h),
              Step("Pa_StartStream", h), Step("Pa_CloseStream", h),
              Step("releaseFill", h)>>
     ELSE <<Step("bindFill", h), Step("Pa_OpenStream", h),
            Step("Pa_StartStream", h), Step("register", h)>>

\* the userData handed to Pa_OpenStream: g_audioCallbackTsfn.get() (line 447)
AsyncUserData(t) == t

\* OpenStreamAsync (lines 398-467).  The fill ThreadSafeFunction is created
\* before Pa_OpenStream and its address is the stream's userData.
OpenStreamAsync(device, channels, sampleRate, openOk, startOk) ==
  /\ ~crashed
  /\ Len(pa) < MaxOpens
  /\ LET args == <<device, channels, sampleRate>>
         opened == openOk /\ PaCanOpen(device, channels, sampleRate)
         steps == AsyncOpenSteps(opened, startOk)
     IN IF Cardinality(DOMAIN g_streams) > 0
          THEN /\ OpenFailed("openStreamAsync", args, "AlreadyOpen", <<>>)
               /\ UNCHANGED <<pa, tsfns, g_audioCallbackTsfn>>
        ELSE /\ Len(tsfns) < MaxTsfn
             /\ LET t == Len(tsfns) + 1
                    made == TsfnNew(tsfns)
                IN IF ~opened
                     THEN /\ OpenFailed("openStreamAsync", args,
                                        "BackendError", steps)
                          /\ tsfns' = TsfnRelease(made, t)
                          /\ g_audioCallbackTsfn' = 0
                          /\ pa' = pa
                   ELSE IF ~startOk
                     THEN /\ OpenFailed("openStreamAsync", args,
                                        "BackendError", steps)
                          /\ tsfns' = TsfnRelease(made, t)
                          /\ g_audioCallbackTsfn' = 0
                          /\ pa' = Append(pa, PaStartFailed(channels, t))
                   ELSE /\ OpenSucceeded("openStreamAsync", args, channels,
                                         AsyncUserData(t), steps)
                        /\ tsfns' = made
                        /\ g_audioCallbackTsfn' = t
  /\ UNCHANGED <<g_eventCallbackTsfn, paInit, rt, crashed, periods, closedIds,
                 releasedByClose>>


(* ------------------- main thread: write, volume ------------------------ *)
\* a scaling loop that stops after the first sample
ScaleFirstOnly(data, volume) ==
  IF FNotEqual(volume, F(2))
    THEN [i \in 1..Len(data) |->
           IF i = 1 THEN FMul(data[i], volume) ELSE data[i]]
    ELSE data

\* the buffer after the scaling loop (lines 284-291)
ScaleBuffer(data, volume) ==
  IF FNotEqual(volume, F(2))
    THEN [i \in 1..Len(data) |-> FMul(data[i], volume)]
    ELSE data

\* the frame count of line 292
FrameCount(len) == len \div 2

\* whether Pa_WriteStream can succeed: a running blocking stream
PaCanWrite(stream) == pa[stream].state = "active" /\ pa[stream].userData = 0

\* the calls of WriteStream past the two tests (lines 284-292): the scaling
\* loop unless the volume is 1.0, then the write primitive
WriteSteps(sinfo) ==
  (IF FNotEqual(sinfo.volume, F(2))
     THEN <<Step("scale", sinfo.stream)>> ELSE <<>>)
    \o <<Step("Pa_WriteStream", sinfo.stream)>>

\* WriteStream (lines 237-304).  written is what Pa_WriteStream was called
\* with, or <<>> when it was not called.
WriteStream(data, streamId, writeOk) ==
  /\ ~crashed
  /\ IF ~GetStreamInfoById(streamId)
       THEN lastOp' = [op |-> "writeStream", id |-> streamId,
                       result |-> "NotFound", written |-> <<>>,
                       steps |-> <<>>]
     ELSE IF Len(data) = 0
       THEN lastOp' = [op |-> "writeStream", id |-> streamId,
                       result |-> "InvalidArgument", data |-> data,
                       written |-> <<>>, steps |-> <<>>]
     ELSE LET sinfo == g_streams[streamId]
              call == [stream |-> sinfo.stream,
                       buffer |-> ScaleBuffer(data, sinfo.volume),
                       frames |-> FrameCount(Len(data))]
          IN lastOp' = [op |-> "writeStream", id |-> streamId,
                        result |-> IF writeOk /\ PaCanWrite(sinfo.stream)
                                     THEN "ok" ELSE "BackendError",
                        data |-> data, written |-> <<call>>,
                        steps |-> WriteSteps(sinfo)]
  /\ UNCHANGED <<g_streams, g_nextStreamId, g_audioCallbackTsfn,
                 g_eventCallbackTsfn, tsfns, pa, paInit, rt, crashed, periods,
                 returnedIds, closedIds, releasedByClose>>

\* the clamp of lines 505-508
ClampVolume(volume) ==
  LET lo == IF FLess(volume, F(0)) THEN F(0) ELSE volume
  IN IF FGreater(lo, F(4)) THEN F(4) ELSE lo

\* history: the periods of backend stream h whose fill handler has not run
\* yet have now seen this volume too
VolumeSeen(h, volume) ==
  [p \in DOMAIN periods |->
     IF periods[p].h = h /\ periods[p].out = <<>>
       THEN [periods[p] EXCEPT !.vols = @ \cup {volume}]
       ELSE periods[p]]

\* SetStreamVolume (lines 495-517)
SetStreamVolume(streamId, v) ==
  /\ ~crashed
  /\ LET volume == ClampVolume(FloatValue(v))
     IN IF ~GetStreamInfoById(streamId)
          THEN /\ lastOp' = [op |-> "setStreamVolume", id |-> streamId,
                             result |-> "NotFound", v |-> v]
               /\ UNCHANGED <<g_streams, periods>>
          ELSE /\ g_streams' = [g_streams EXCEPT ![streamId].volume = volume]
               /\ periods' = VolumeSeen(g_streams[streamId].stream, volume)
               /\ lastOp' = [op |-> "setStreamVolume", id |-> streamId,
                             result |-> "ok", v |-> v]
  /\ UNCHANGED <<g_nextStreamId, g_audioCallbackTsfn, g_eventCallbackTsfn,
                 tsfns, pa, paInit, rt, crashed, returnedIds, closedIds,
                 releasedByClose>>

(* ------------------- main thread: close, terminate --------------------- *)
\* the real-time thread is inside AudioCallback for backend stream h
InCallback(h) == rt.pc # "idle" /\ rt.h = h

\* the bindings a release sets to null
Bound == {g_audioCallbackTsfn, g_eventCallbackTsfn} \ {0}

\* the backend stream after Pa_StopStream and Pa_CloseStream of lines
\* 317-319: the close is attempted only when the stop succeeded
StopThenClose(s, stopOk, closeOk) ==
  IF ~stopOk THEN s
  ELSE IF ~closeOk
    THEN [s EXCEPT !.state = "stopped", !.closeCalls = @ + 1]
  ELSE [s EXCEPT !.state = "closed", !.closes = @ + 1, !.closeCalls = @ + 1]

\* a close that swallows the backend's error
CloseResultSwallowed(stopOk, closeOk) == "ok"

\* the result CloseStream reports (lines 331-336)
CloseResult(stopOk, closeOk) ==
  IF stopOk /\ closeOk THEN "ok" ELSE "BackendError"

\* the Release() calls of lines 58-67 and 321-330: fill first, then event,
\* each only when bound
ReleaseSteps ==
  (IF g_audioCallbackTsfn # 0 THEN <<Step("releaseFill", 0)>> ELSE <<>>)
    \o (IF g_eventCallbackTsfn # 0 THEN <<Step("releaseEvent", 0)>> ELSE <<>>)

\* a close that releases the bindings before it touches the backend stream
CloseStepsReleaseFirst(stream, stopOk) ==
  ReleaseSteps
    \o <<Step("Pa_StopStream", stream)>>
    \o (IF stopOk THEN <<Step("Pa_CloseStream", stream)>> ELSE <<>>)
    \o <<Step("erase", stream)>>

\* the calls of CloseStream on a known id (lines 317-330): stop, close when
\* the stop succeeded, erase, then the releases
CloseSteps(stream, stopOk) ==
  <<Step("Pa_StopStream", stream)>>
    \o (IF stopOk THEN <<Step("Pa_CloseStream", stream)>> ELSE <<>>)
    \o <<Step("erase", stream)>>
    \o ReleaseSteps

\* CloseStream (lines 307-337).  Pa_StopStream returns success only after a
\* running callback of that stream has returned.
CloseStream(streamId, stopOk, closeOk) ==
  /\ ~crashed
  /\ IF ~GetStreamInfoById(streamId)
       THEN /\ lastOp' = [op |-> "closeStream", id |-> streamId,
                          result |-> "ok", steps |-> <<>>]
            /\ UNCHANGED <<g_streams, g_audioCallbackTsfn,
                           g_eventCallbackTsfn, tsfns, pa, closedIds,
                           releasedByClose>>
       ELSE LET stream == g_streams[streamId].stream
            IN /\ stopOk => ~InCallback(stream)
               /\ pa' = [pa EXCEPT ![stream] = StopThenClose(@, stopOk, closeOk)]
               /\ g_streams' = Erase(streamId)
               /\ tsfns' = ReleaseBindings(tsfns)
               /\ g_audioCallbackTsfn' = 0
               /\ g_eventCallbackTsfn' = 0
               /\ closedIds' = closedIds \cup {streamId}
               /\ releasedByClose' = releasedByClose \cup Bound
               /\ lastOp' = [op |-> "closeStream", id |-> streamId,
                             result |-> CloseResult(stopOk, closeOk),
                             steps |-> CloseSteps(stream, stopOk)]
  /\ UNCHANGED <<g_nextStreamId, paInit, rt, crashed, periods, returnedIds>>

\* the backend streams the registry holds
Registered == {g_streams[k].stream : k \in DOMAIN g_streams}

\* a shutdown that stops the stream and forgets to close it
StopOnly(s, stopOk, closeOk) ==
  IF stopOk THEN [s EXCEPT !.state = "stopped"] ELSE s

\* the backend stream after Pa_StopStream and Pa_CloseStream of lines 53-54:
\* both are called whatever the first returns
StopAndClose(s, stopOk, closeOk) ==
  IF closeOk
    THEN [s EXCEPT !.state = "closed", !.closes = @ + 1, !.closeCalls = @ + 1]
  ELSE IF stopOk THEN [s EXCEPT !.state = "stopped", !.closeCalls = @ + 1]
  ELSE [s EXCEPT !.closeCalls = @ + 1]

\* Pa_Terminate (line 68): at reference count 1 the backend closes every
\* stream still open
PaTerminated(p, ok) ==
  IF ok /\ paInit = 1
    THEN [h \in DOMAIN p |-> [p[h] EXCEPT !.state = "closed"]]
    ELSE p

\* the registered ids in the iteration order of std::map (line 48)
RegisteredIds ==
  SelectSeq([i \in 1..g_nextStreamId |-> i], LAMBDA i : i \in DOMAIN g_streams)

\* the stop and close of lines 53-54 for each id of a sequence
RECURSIVE StopCloseSteps(_)
StopCloseSteps(ids) ==
  IF ids = <<>> THEN <<>>
  ELSE <<Step("Pa_StopStream", g_streams[Head(ids)].stream),
         Step("Pa_CloseStream", g_streams[Head(ids)].stream)>>
       \o StopCloseSteps(Tail(ids))

\* the calls of Terminate (lines 48-68)
TerminateSteps ==
  StopCloseSteps(RegisteredIds) \o <<Step("clear", 0)>> \o ReleaseSteps
    \o <<Step("Pa_Terminate", 0)>>

\* Terminate (lines 44-75)
Terminate(stopped, closed, termOk) ==
  /\ ~crashed
  /\ \A h \in stopped \cup closed : ~InCallback(h)
  /\ LET ok == termOk /\ paInit > 0
     IN /\ ok => rt.pc = "idle"
        /\ pa' = PaTerminated(
                   [h \in DOMAIN pa |->
                     IF h \in Registered
                       THEN StopAndClose(pa[h], h \in stopped, h \in closed)
                       ELSE pa[h]], ok)
        /\ paInit' = IF ok THEN paInit - 1 ELSE paInit
        /\ lastOp' = [op |-> "terminate", id |-> 0,
                      result |-> IF ok THEN "ok" ELSE "BackendError",
                      steps |-> TerminateSteps]
  /\ g_streams' = <<>>
  /\ tsfns' = ReleaseBindings(tsfns)
  /\ g_audioCallbackTsfn' = 0
  /\ g_eventCallbackTsfn' = 0
  /\ UNCHANGED <<g_nextStreamId, rt, crashed, periods, returnedIds, closedIds,
                 releasedByClose>>

\* SetStreamEventCallback (lines 378-395)
SetStreamEventCallback ==
  /\ ~crashed
  /\ Len(tsfns) < MaxTsfn
  /\ LET old == IF g_eventCallbackTsfn # 0
                  THEN TsfnRelease(tsfns, g_eventCallbackTsfn) ELSE tsfns
     IN tsfns' = TsfnNew(old)
  /\ g_eventCallbackTsfn' = Len(tsfns) + 1
  /\ lastOp' = [op |-> "setStreamEventCallback", id |-> 0, result |-> "ok"]
  /\ UNCHANGED <<g_streams, g_nextStreamId, g_audioCallbackTsfn, pa, paInit,
                 rt, crashed, periods, returnedIds, closedIds, releasedByClose>>


(* ------------------- real-time thread: AudioCallback ------------------- *)
\* the status tests of lines 368-373, in source order
FlagOrder == <<"outputUnderflow", "outputOverflow", "primingOutput">>
StatusFlags == {FlagOrder[i] : i \in 1..3}
\* the flag sets the backend reports in the runs checked
FlagInputs == {{}, {"outputUnderflow", "outputOverflow"},
               {"outputOverflow", "primingOutput"}}

\* the first flag test after test i that passes; 4 when none does
NextFlag(i, flags) ==
  IF \E j \in (i + 1)..3 : FlagOrder[j] \in flags
    THEN CHOOSE j \in (i + 1)..3 :
           /\ FlagOrder[j] \in flags
           /\ \A k \in (i + 1)..(j - 1) : FlagOrder[k] \notin flags
    ELSE 4

\* the position after the BlockingCall of line 363 or after flag test i
AfterStep(i, flags) ==
  IF NextFlag(i, flags) = 4 THEN [pc |-> "return", i |-> 4]
  ELSE [pc |-> "events", i |-> NextFlag(i, flags)]

\* the backend enters AudioCallback (lines 354-361) for a running
\* callback-driven stream, with the period's status flags
AudioCallbackBegin(h, flags) ==
  /\ ~crashed
  /\ rt.pc = "idle"
  /\ Len(periods) < MaxPeriods
  /\ h \in DOMAIN pa
  /\ pa[h].state = "active"
  /\ pa[h].userData # 0
  /\ rt' = [pc |-> "fill", h |-> h, flags |-> flags, status |-> "none",
            i |-> 0, evp |-> 0]
  /\ periods' = Append(periods,
                  [h |-> h, flags |-> flags, tsfn |-> pa[h].userData,
                   afterClose |-> pa[h].userData \in releasedByClose,
                   bound |-> <<>>, outcome |-> "pending",
                   vols |-> {g_streams[id].volume :
                               id \in {k \in DOMAIN g_streams :
                                         g_streams[k].stream = h}},
                   out |-> <<>>])
  /\ UNCHANGED <<g_streams, g_nextStreamId, g_audioCallbackTsfn,
                 g_eventCallbackTsfn, tsfns, pa, paInit, crashed, lastOp,
                 returnedIds, closedIds, releasedByClose>>

\* the call the fill lambda of lines 363-366 stands for
FillCall == [period |-> Len(periods), type |-> "fill"]

\* tsfn->BlockingCall (lines 360-366) while the unique_ptr still owns the
\* ThreadSafeFunction userData points to
AudioCallbackFill ==
  /\ ~crashed
  /\ rt.pc = "fill"
  /\ LET t == pa[rt.h].userData
     IN /\ g_audioCallbackTsfn = t
        /\ tsfns' = TsfnCallQueue(tsfns, t, FillCall)
        /\ rt' = [rt EXCEPT !.status = TsfnCallStatus(tsfns, t),
                            !.pc = AfterStep(0, rt.flags).pc,
                            !.i = AfterStep(0, rt.flags).i]
  /\ UNCHANGED <<g_streams, g_nextStreamId, g_audioCallbackTsfn,
                 g_eventCallbackTsfn, pa, paInit, crashed, lastOp, periods,
                 returnedIds, closedIds, releasedByClose>>

\* the same call after reset() destroyed the object userData points to
\* (lines 61, 324, 451, 460): a use after free.  The freed object may still
\* hold the handle of a function that is not closed yet (the call is queued
\* and napi_ok returned), the call may fail, or the process may die.
AudioCallbackFillDangling(outcome) ==
  /\ ~crashed
  /\ rt.pc = "fill"
  /\ LET t == pa[rt.h].userData
     IN /\ g_audioCallbackTsfn # t
        /\ outcome = "queued" => ~tsfns[t].closed
        /\ tsfns' = IF outcome = "queued"
                      THEN TsfnCallQueue(tsfns, t, FillCall) ELSE tsfns
        /\ crashed' = (outcome = "crash")
        /\ rt' = [rt EXCEPT !.status = IF outcome = "queued" THEN "napi_ok"
                                       ELSE "napi_invalid_arg",
                            !.pc = AfterStep(0, rt.flags).pc,
                            !.i = AfterStep(0, rt.flags).i]
  /\ UNCHANGED <<g_streams, g_nextStreamId, g_audioCallbackTsfn,
                 g_eventCallbackTsfn, pa, paInit, lastOp, periods, returnedIds,
                 closedIds, releasedByClose>>

\* an EmitStreamEvent that drops the overflow notification
EmitDropsOverflow(ts, type) ==
  IF g_eventCallbackTsfn # 0 /\ type # "outputOverflow"
    THEN TsfnCallQueue(ts, g_eventCallbackTsfn,
                       [period |-> Len(periods), type |-> type])
    ELSE ts

\* EmitStreamEvent (lines 340-351): the queue of the event function after
\* the call; nothing is queued when no handler is bound
EmitStreamEvent(ts, type) ==
  IF g_eventCallbackTsfn # 0
    THEN TsfnCallQueue(ts, g_eventCallbackTsfn,
                       [period |-> Len(periods), type |-> type])
    ELSE ts

\* the history entry of one EmitStreamEvent: the binding its test saw, the
\* function the call was queued on (0: none), and whether the binding was
\* changed between the test and the call
Tested(type, ev, to, raced) ==
  [type |-> type, ev |-> ev, to |-> to, raced |-> raced]

\* a passing flag test of lines 368-373 and the test of line 342: with no
\* handler bound EmitStreamEvent returns at once
EmitStreamEventTest ==
  /\ ~crashed
  /\ rt.pc = "events"
  /\ IF g_eventCallbackTsfn = 0
       THEN /\ rt' = [rt EXCEPT !.pc = AfterStep(rt.i, rt.flags).pc,
                                !.i = AfterStep(rt.i, rt.flags).i]
            /\ periods' = [periods EXCEPT ![Len(periods)].bound =
                             Append(@, Tested(FlagOrder[rt.i], 0, 0, FALSE))]
       ELSE /\ rt' = [rt EXCEPT !.pc = "emit", !.evp = g_eventCallbackTsfn]
            /\ UNCHANGED periods
  /\ UNCHANGED <<g_streams, g_nextStreamId, g_audioCallbackTsfn,
                 g_eventCallbackTsfn, tsfns, pa, paInit, crashed, lastOp,
                 returnedIds, closedIds, releasedByClose>>

\* a BlockingCall that waits until the queue has room for one call
AudioCallbackEmitWaits ==
  /\ ~crashed
  /\ rt.pc = "emit"
  /\ g_eventCallbackTsfn = rt.evp
  /\ tsfns[rt.evp].queue = <<>>
  /\ tsfns' = EmitStreamEvent(tsfns, FlagOrder[rt.i])
  /\ periods' = [periods EXCEPT ![Len(periods)].bound =
                   Append(@, Tested(FlagOrder[rt.i], rt.evp, rt.evp, FALSE))]
  /\ rt' = [rt EXCEPT !.pc = AfterStep(rt.i, rt.flags).pc,
                      !.i = AfterStep(rt.i, rt.flags).i, !.evp = 0]
  /\ UNCHANGED <<g_streams, g_nextStreamId, g_audioCallbackTsfn,
                 g_eventCallbackTsfn, pa, paInit, crashed, lastOp,
                 returnedIds, closedIds, releasedByClose>>

\* the BlockingCall of lines 344-349 on the binding the test saw
AudioCallbackEmit ==
  /\ ~crashed
  /\ rt.pc = "emit"
  /\ g_eventCallbackTsfn = rt.evp
  /\ tsfns' = EmitStreamEvent(tsfns, FlagOrder[rt.i])
  /\ periods' = [periods EXCEPT ![Len(periods)].bound =
                   Append(@, Tested(FlagOrder[rt.i], rt.evp, rt.evp, FALSE))]
  /\ rt' = [rt EXCEPT !.pc = AfterStep(rt.i, rt.flags).pc,
                      !.i = AfterStep(rt.i, rt.flags).i, !.evp = 0]
  /\ UNCHANGED <<g_streams, g_nextStreamId, g_audioCallbackTsfn,
                 g_eventCallbackTsfn, pa, paInit, crashed, lastOp,
                 returnedIds, closedIds, releasedByClose>>

\* the same call after the main thread released or replaced the binding
\* between the test and the call: an unsynchronised read of a unique_ptr
\* that is being written.  The call may be queued on the function the test
\* saw (if it is not closed yet), may be queued on the function bound now,
\* may be lost, or the process may die.
AudioCallbackEmitRaced(outcome) ==
  /\ ~crashed
  /\ rt.pc = "emit"
  /\ g_eventCallbackTsfn # rt.evp
  /\ outcome = "old" => ~tsfns[rt.evp].closed
  /\ outcome = "new" => g_eventCallbackTsfn # 0
  /\ LET to == IF outcome = "old" THEN rt.evp
               ELSE IF outcome = "new" THEN g_eventCallbackTsfn ELSE 0
     IN /\ tsfns' = IF to # 0
                      THEN TsfnCallQueue(tsfns, to,
                             [period |-> Len(periods), type |-> FlagOrder[rt.i]])
                      ELSE tsfns
        /\ periods' = [periods EXCEPT ![Len(periods)].bound =
                         Append(@, Tested(FlagOrder[rt.i], rt.evp, to, TRUE))]
  /\ crashed' = (outcome = "crash")
  /\ rt' = [rt EXCEPT !.pc = AfterStep(rt.i, rt.flags).pc,
                      !.i = AfterStep(rt.i, rt.flags).i, !.evp = 0]
  /\ UNCHANGED <<g_streams, g_nextStreamId, g_audioCallbackTsfn,
                 g_eventCallbackTsfn, pa, paInit, lastOp, returnedIds,
                 closedIds, releasedByClose>>

\* the value AudioCallback returns (line 374)
CallbackResult(status) == IF status = "napi_ok" THEN "Continue" ELSE "Abort"

\* return to the backend (line 374); on paAbort the backend stops calling
AudioCallbackReturn ==
  /\ ~crashed
  /\ rt.pc = "return"
  /\ LET res == CallbackResult(rt.status)
     IN /\ periods' = [periods EXCEPT ![Len(periods)].outcome = res]
        /\ pa' = IF res = "Abort" /\ pa[rt.h].state = "active"
                   THEN [pa EXCEPT ![rt.h].state = "aborted"] ELSE pa
  /\ rt' = RtIdle
  /\ UNCHANGED <<g_streams, g_nextStreamId, g_audioCallbackTsfn,
                 g_eventCallbackTsfn, tsfns, paInit, crashed, lastOp,
                 returnedIds, closedIds, releasedByClose>>

(* ------------------- main thread: N-API dispatch ----------------------- *)
\* the samples the JavaScript fill handler writes into the buffer it is
\* handed, in the runs checked: 2.0 and -1.0
FillSamples == <<F(4), F(0 - 2)>>

\* the backend's output buffer after the fill lambda (lines 363-366): the
\* Buffer handed to the handler wraps out itself, and nothing reads
\* StreamInfo::volume or touches the samples afterwards
FillOutput(samples) == samples

\* The event loop serves ThreadSafeFunction t: the oldest queued call runs
\* the bound JavaScript handler (the lambdas of lines 344-349 and 363-366);
\* a released function whose queue is empty is closed.
TsfnDispatch(t) ==
  /\ ~crashed
  /\ t \in DOMAIN tsfns
  /\ ~tsfns[t].closed
  /\ tsfns[t].queue # <<>> \/ tsfns[t].thread_count = 0
  /\ LET q == tsfns[t].queue
         rest == IF q = <<>> THEN q ELSE Tail(q)
     IN /\ tsfns' = [tsfns EXCEPT
                       ![t].queue = rest,
                       ![t].ran = IF q = <<>> THEN @ ELSE Append(@, Head(q)),
                       ![t].closed = (rest = <<>> /\ tsfns[t].thread_count = 0)]
        /\ periods' = IF q # <<>> /\ Head(q).type = "fill"
                        THEN [periods EXCEPT ![Head(q).period].out =
                                FillOutput(FillSamples)]
                        ELSE periods
  /\ UNCHANGED <<g_streams, g_nextStreamId, g_audioCallbackTsfn,
                 g_eventCallbackTsfn, pa, paInit, rt, crashed, lastOp,
                 returnedIds, closedIds, releasedByClose>>

(* --------------------------- specification ----------------------------- *)
\* arguments callers pass to openStream (device, sampleRate, channels,
\* framesPerBuffer): two valid calls, and one call per argument out of range
OpenStreamInputs ==
  {<<0, 44100, 2, 256>>, <<0, 44100, 1, 256>>, <<0 - 1, 44100, 2, 256>>,
   <<NumDevices, 44100, 2, 256>>, <<0, 0, 2, 256>>, <<0, 44100, 0, 256>>,
   <<0, 44100, 2, 0>>}
\* options callers pass to openStreamAsync (device, channels, sampleRate)
OpenAsyncInputs == {<<0, 2, 44100>>, <<0, 1, 44100>>, <<0 - 1, 2, 44100>>}
\* stream ids callers pass: every id handed out so far and one never issued
IdInputs == 1..(MaxOpens + 1)

\* The registry and the blocking write path: the exported functions that
\* read or write g_streams, run by the JavaScript main thread.
Next ==
  \/ \E ok \in BOOLEAN : Initialize(ok)
  \/ \E openOk, startOk \in BOOLEAN : OpenDefaultStream(openOk, startOk)
  \/ \E a \in OpenStreamInputs, openOk, startOk \in BOOLEAN :
       OpenStream(a[1], a[2], a[3], a[4], openOk, startOk)
  \/ \E a \in OpenAsyncInputs, openOk, startOk \in BOOLEAN :
       OpenStreamAsync(a[1], a[2], a[3], openOk, startOk)
  \/ \E data \in SampleBuffers, id \in IdInputs, writeOk \in BOOLEAN :
       WriteStream(data, id, writeOk)
  \/ \E id \in IdInputs, v \in VolumeInputs : SetStreamVolume(id, v)
  \/ \E id \in IdInputs, stopOk, closeOk \in BOOLEAN :
       CloseStream(id, stopOk, closeOk)
  \/ \E stopped, closed \in SUBSET Registered, termOk \in BOOLEAN :
       Terminate(stopped, closed, termOk)

Spec == Init /\ [][Next]_vars

\* The callback bridge: a callback-driven stream is opened and closed by the
\* main thread while the backend's real-time thread runs AudioCallback and
\* the event loop dispatches the queued calls.  The blocking write path and
\* the argument validation, which the bridge does not read, are left to Spec.
NextBridge ==
  \/ Initialize(TRUE)
  \/ \E openOk, startOk \in BOOLEAN :
       OpenStreamAsync(0, 2, 44100, openOk, startOk)
  \/ \E id \in DOMAIN g_streams, stopOk, closeOk \in BOOLEAN :
       CloseStream(id, stopOk, closeOk)
  \/ \E stopped, closed \in SUBSET Registered, termOk \in BOOLEAN :
       Terminate(stopped, closed, termOk)
  \/ SetStreamEventCallback
  \/ \E h \in DOMAIN pa, flags \in FlagInputs : AudioCallbackBegin(h, flags)
  \/ AudioCallbackFill
  \/ \E outcome \in {"queued", "failed", "crash"} :
       AudioCallbackFillDangling(outcome)
  \/ EmitStreamEventTest
  \/ AudioCallbackEmit
  \/ \E outcome \in {"old", "new", "lost", "crash"} :
       AudioCallbackEmitRaced(outcome)
  \/ AudioCallbackReturn
  \/ \E t \in DOMAIN tsfns : TsfnDispatch(t)

SpecBridge == Init /\ [][NextBridge]_vars

\* The lifecycle: every exported function that opens or closes a stream or
\* binds or releases a ThreadSafeFunction, run by the JavaScript main thread
\* with no callback in flight.
NextLifecycle ==
  \/ \E ok \in BOOLEAN : Initialize(ok)
  \/ \E openOk, startOk \in BOOLEAN : OpenDefaultStream(openOk, startOk)
  \/ \E a \in OpenStreamInputs, openOk, startOk \in BOOLEAN :
       OpenStream(a[1], a[2], a[3], a[4], openOk, startOk)
  \/ \E a \in OpenAsyncInputs, openOk, startOk \in BOOLEAN :
       OpenStreamAsync(a[1], a[2], a[3], openOk, startOk)
  \/ SetStreamEventCallback
  \/ \E id \in IdInputs, stopOk, closeOk \in BOOLEAN :
       CloseStream(id, stopOk, closeOk)
  \/ \E stopped, closed \in SUBSET Registered, termOk \in BOOLEAN :
       Terminate(stopped, closed, termOk)

SpecLifecycle == Init /\ [][NextLifecycle]_vars

\* The volume and the two data paths: a blocking and a callback-driven
\* stream are opened, setStreamVolume changes their volumes, writeStream
\* pushes buffers and the real-time thread pulls them through the fill
\* handler.
NextVolume ==
  \/ Initialize(TRUE)
  \/ OpenStreamAsync(0, 2, 44100, TRUE, TRUE)
  \/ OpenStream(0, 44100, 2, 256, TRUE, TRUE)
  \/ \E id \in DOMAIN g_streams, v \in VolumeInputs : SetStreamVolume(id, v)
  \/ \E id \in DOMAIN g_streams : WriteStream(<<F(4), F(0 - 2)>>, id, TRUE)
  \/ \E h \in DOMAIN pa : AudioCallbackBegin(h, {})
  \/ AudioCallbackFill
  \/ AudioCallbackReturn
  \/ \E t \in DOMAIN tsfns : TsfnDispatch(t)

SpecVolume == Init /\ [][NextVolume]_vars

(* ------------------------------ claims --------------------------------- *)
OpenOps == {"openDefaultStream", "openStream", "openStreamAsync"}

\* C1: the registry never holds more than one stream: an open attempted
\* while it is non-empty fails with AlreadyOpen and registers nothing.
C1_SingleStream == Cardinality(DOMAIN g_streams) <= 1

FillQueued(p) ==
  \E i \in DOMAIN tsfns[periods[p].tsfn].queue :
    tsfns[periods[p].tsfn].queue[i] = [period |-> p, type |-> "fill"]
FillRan(p) ==
  \E i \in DOMAIN tsfns[periods[p].tsfn].ran :
    tsfns[periods[p].tsfn].ran[i] = [period |-> p, type |-> "fill"]

\* C3: once closeStream of a known stream has completed both bindings are
\* unbound, and a fill invocation that starts after the close returns Abort
\* and neither queues nor runs a call of the handler bound before the close.
C3_NoFillAfterClose ==
  /\ lastOp.op = "closeStream"
       => (g_audioCallbackTsfn = 0 /\ g_eventCallbackTsfn = 0)
  /\ \A p \in DOMAIN periods :
       periods[p].afterClose
         => /\ periods[p].outcome # "Continue"
            /\ ~FillQueued(p)
            /\ ~FillRan(p)

\* C4: when AudioCallback returns Continue for a period, that period's fill
\* handler has already run to completion on the main thread.
C4_FillRendezvous ==
  \A p \in DOMAIN periods : periods[p].outcome = "Continue" => FillRan(p)

\* C5: for a known id and a non-empty buffer, Pa_WriteStream is handed a
\* buffer of the same length in which every sample is original * volume for
\* the stream's current volume (NaN when the volume is NaN): doubled at
\* volume 2.0, identical at volume 1.0.
C5_WriteScales ==
  (lastOp.op = "writeStream" /\ lastOp.id \in DOMAIN g_streams
     /\ lastOp.data # <<>>)
    => /\ lastOp.written # <<>>
       /\ LET out == lastOp.written[1].buffer
              volume == g_streams[lastOp.id].volume
          IN /\ Len(out) = Len(lastOp.data)
             /\ \A i \in 1..Len(out) :
                  IF volume.nan THEN out[i].nan
                  ELSE ~out[i].nan /\ 2 * out[i].h = lastOp.data[i].h * volume.h
             /\ volume = F(4) =>
                  \A i \in 1..Len(out) : out[i].h = 2 * lastOp.data[i].h
             /\ volume = F(2) => out = lastOp.data

\* a write of two samples to a stream whose volume is 2.0
C5_Witness ==
  /\ lastOp.op = "writeStream"
  /\ lastOp.written # <<>>
  /\ Len(lastOp.written[1].buffer) = 2
  /\ lastOp.id \in DOMAIN g_streams
  /\ g_streams[lastOp.id].volume = F(4)
  /\ lastOp.written[1].buffer # lastOp.data

\* C6: every stored volume lies in [0.0, 2.0]; after setStreamVolume(id, v)
\* on a known id the stored volume is clamp(v, 0.0, 2.0); on an unknown id it
\* fails with NotFound.
C6_VolumeClamped ==
  /\ \A id \in DOMAIN g_streams :
       /\ ~g_streams[id].volume.nan
       /\ g_streams[id].volume.h >= 0
       /\ g_streams[id].volume.h <= 4
  /\ lastOp.op = "setStreamVolume" =>
       IF lastOp.id \in DOMAIN g_streams
         THEN /\ lastOp.result = "ok"
              /\ ~lastOp.v.nan =>
                   g_streams[lastOp.id].volume.h =
                     (IF lastOp.v.h < 0 THEN 0
                      ELSE IF lastOp.v.h > 4 THEN 4 ELSE lastOp.v.h)
         ELSE lastOp.result = "NotFound"

\* C7: closeStream of an id that is not registered returns without error and
\* changes nothing; an id removed by closeStream is not registered again, and
\* every later writeStream or setStreamVolume on it fails with NotFound.
C7_CloseUnknownAndRemoved ==
  /\ [][(lastOp'.op = "closeStream" /\ lastOp'.id \notin DOMAIN g_streams)
          => /\ lastOp'.result = "ok"
             /\ UNCHANGED <<g_streams, g_nextStreamId, g_audioCallbackTsfn,
                            g_eventCallbackTsfn, tsfns, pa, paInit>>]_vars
  /\ [](closedIds \cap DOMAIN g_streams = {})
  /\ [][(lastOp'.op \in {"writeStream", "setStreamVolume"}
           /\ lastOp'.id \in closedIds)
          => /\ lastOp'.result = "NotFound"
             /\ UNCHANGED <<g_streams, pa>>]_vars

\* a write to an id that closeStream removed, failing with NotFound, while
\* another stream is registered
C7_Witness ==
  /\ lastOp.op = "writeStream"
  /\ lastOp.id \in closedIds
  /\ lastOp.result = "NotFound"
  /\ g_streams # <<>>

\* C8: the frame count handed to Pa_WriteStream is the buffer length divided
\* by the channel count the written stream was opened with.
C8_FrameCount ==
  (lastOp.op = "writeStream" /\ lastOp.written # <<>>)
    => lastOp.written[1].frames =
         Len(lastOp.data) \div pa[lastOp.written[1].stream].channels

\* the EmitStreamEvent calls of periods 1..n in the order they were made
RECURSIVE FlagTests(_)
FlagTests(n) ==
  IF n = 0 THEN <<>>
  ELSE FlagTests(n - 1) \o
       [i \in 1..Len(periods[n].bound) |->
          [period |-> n, type |-> periods[n].bound[i].type,
           to |-> periods[n].bound[i].to]]

\* the notifications handler t is owed, in order
Owed(t) ==
  LET mine == SelectSeq(FlagTests(Len(periods)), LAMBDA e : e.to = t)
  IN [i \in 1..Len(mine) |-> [period |-> mine[i].period, type |-> mine[i].type]]

\* the flags of a set in the order underflow, overflow, priming
InFlagOrder(flags) == SelectSeq(FlagOrder, LAMBDA f : f \in flags)

IsEvent(c) == c.type # "fill"

\* C9: a period that has returned made one EmitStreamEvent call per flag set,
\* in the order underflow, overflow, priming; each call made with a handler
\* bound (and not released or replaced during the call) queued exactly one
\* notification on that handler; and each handler has been served, or still
\* holds queued, exactly the notifications queued on it, in that order, so
\* nothing is dropped or merged and delivery is first in, first out, earlier
\* periods first.
C9_EventsInOrder ==
  /\ \A p \in DOMAIN periods :
       /\ periods[p].outcome # "pending" =>
            [i \in 1..Len(periods[p].bound) |-> periods[p].bound[i].type]
              = InFlagOrder(periods[p].flags)
       /\ \A i \in DOMAIN periods[p].bound :
            ~periods[p].bound[i].raced
              => periods[p].bound[i].to = periods[p].bound[i].ev
  /\ \A t \in DOMAIN tsfns :
       SelectSeq(tsfns[t].ran \o tsfns[t].queue, IsEvent) = Owed(t)

\* one handler was served underflow then overflow of the first period, and
\* then a notification of the second period
C9_Witness ==
  \E t \in DOMAIN tsfns :
    /\ Len(tsfns[t].ran) >= 3
    /\ tsfns[t].ran[1] = [period |-> 1, type |-> "outputUnderflow"]
    /\ tsfns[t].ran[2] = [period |-> 1, type |-> "outputOverflow"]
    /\ tsfns[t].ran[3].period = 2

\* C10: every successful open returns an id greater than every id returned
\* before it, so no id is handed out twice.
C10_IdsIncrease ==
  \A i, j \in DOMAIN returnedIds : i < j => returnedIds[i] < returnedIds[j]

\* a second id was handed out after the first stream was closed
C10_Witness ==
  /\ Len(returnedIds) >= 2
  /\ returnedIds[1] \in closedIds
  /\ returnedIds[2] \in DOMAIN g_streams

\* the position of the first step of a kind on stream h in a step sequence;
\* 0 when there is none
StepIndex(steps, call, h) ==
  IF \E i \in DOMAIN steps : steps[i] = Step(call, h)
    THEN CHOOSE i \in DOMAIN steps :
           /\ steps[i] = Step(call, h)
           /\ \A j \in 1..(i - 1) : steps[j] # Step(call, h)
    ELSE 0

C12_ValidationFirst ==
  [][/\ (/\ lastOp'.op = "openStream"
          /\ \/ lastOp'.args[1] < 0 \/ lastOp'.args[1] >= Pa_GetDeviceCount
             \/ lastOp'.args[3] <= 0
             \/ lastOp'.args[2] <= 0
             \/ lastOp'.args[4] = 0)
         => /\ lastOp'.result = "InvalidArgument"
            /\ lastOp'.steps = <<>>
            /\ UNCHANGED <<g_streams, g_nextStreamId, pa, tsfns, returnedIds,
                           g_audioCallbackTsfn, g_eventCallbackTsfn>>
     /\ (lastOp'.op = "writeStream" /\ lastOp'.id \notin DOMAIN g_streams)
         => /\ lastOp'.result = "NotFound"
            /\ lastOp'.steps = <<>> /\ lastOp'.written = <<>>
            /\ UNCHANGED <<g_streams, pa>>
     /\ (/\ lastOp'.op = "writeStream" /\ lastOp'.id \in DOMAIN g_streams
          /\ lastOp'.data = <<>>)
         => /\ lastOp'.result = "InvalidArgument"
            /\ lastOp'.steps = <<>> /\ lastOp'.written = <<>>
            /\ UNCHANGED <<g_streams, pa>>]_vars

\* openStream(-1, 44100, 2, 256) on an initialised backend failed with
\* InvalidArgument while a stream was registered
C12_Witness ==
  /\ lastOp.op = "openStream"
  /\ lastOp.args = <<0 - 1, 44100, 2, 256>>
  /\ lastOp.result = "InvalidArgument"
  /\ paInit > 0
  /\ g_streams # <<>>

\* C13: an open that fails on the backend's open or start primitive leaves
\* the registry, the id counter, the ids handed out, the event binding and
\* every existing backend stream and ThreadSafeFunction as they were; a
\* stream that was opened and did not start has been closed by one
\* Pa_CloseStream call; the fill function openStreamAsync created for the
\* attempt has been released and the fill binding is null again.
C13_FailedOpenRestores ==
  [][(lastOp'.op \in OpenOps /\ lastOp'.result = "BackendError")
       => /\ UNCHANGED <<g_streams, g_nextStreamId, returnedIds,
                         g_eventCallbackTsfn, g_audioCallbackTsfn, paInit>>
          /\ \A h \in DOMAIN pa : pa'[h] = pa[h]
          /\ \A t \in DOMAIN tsfns : tsfns'[t] = tsfns[t]
          /\ \A h \in DOMAIN pa' \ DOMAIN pa :
               pa'[h].state = "closed" /\ pa'[h].closeCalls = 1
          /\ Len(pa') = Len(pa) +
               (IF StepIndex(lastOp'.steps, "Pa_StartStream", Len(pa) + 1) > 0
                  THEN 1 ELSE 0)
          /\ IF lastOp'.op = "openStreamAsync"
               THEN /\ g_audioCallbackTsfn' = 0
                    /\ Len(tsfns') = Len(tsfns) + 1
                    /\ tsfns'[Len(tsfns')].thread_count = 0
                    /\ tsfns'[Len(tsfns')].queue = <<>>
               ELSE tsfns' = tsfns]_vars

\* openStreamAsync failed on Pa_StartStream while an event handler was
\* bound: the stream it opened is closed and its fill function released
C13_Witness ==
  /\ lastOp.op = "openStreamAsync"
  /\ lastOp.result = "BackendError"
  /\ g_eventCallbackTsfn # 0
  /\ Len(pa) > 0
  /\ pa[Len(pa)].userData # 0
  /\ pa[Len(pa)].state = "closed"
  /\ tsfns[pa[Len(pa)].userData].thread_count = 0

\* C14: all samples of one write are scaled by one volume, the stream's; and
\* the buffer a callback-driven stream's fill handler delivered is the
\* handler's samples scaled by one volume the stream had while the fill was
\* pending (the old one or a new one), never a mixture.
C14_OneVolumePerBuffer ==
  /\ (lastOp.op = "writeStream" /\ lastOp.written # <<>>
        /\ lastOp.id \in DOMAIN g_streams)
       => \E v \in {g_streams[lastOp.id].volume} :
            lastOp.written[1].buffer =
              [i \in 1..Len(lastOp.data) |-> FMul(lastOp.data[i], v)]
  /\ \A p \in DOMAIN periods :
       (periods[p].out # <<>> /\ periods[p].vols # {})
         => \E v \in periods[p].vols :
              periods[p].out = [i \in 1..Len(FillSamples) |->
                                 FMul(FillSamples[i], v)]

\* C15: openStreamAsync binds the fill function before it makes any other
\* call, so before Pa_OpenStream and Pa_StartStream; and while the last
\* exported call is a successful openStreamAsync, so in every state in which
\* the real-time thread can enter or is inside AudioCallback for the newly
\* opened stream, the stream's userData is the bound fill function, which
\* has not been released.
C15_BoundBeforeStart ==
  lastOp.op = "openStreamAsync" =>
    /\ lastOp.steps # <<>> =>
         /\ lastOp.steps[1].call = "bindFill"
         /\ \A i \in DOMAIN lastOp.steps :
              lastOp.steps[i].call \in {"Pa_OpenStream", "Pa_StartStream"}
                => i > 1
    /\ lastOp.result = "ok" =>
         LET h == g_streams[lastOp.id].stream
         IN /\ pa[h].userData # 0
            /\ g_audioCallbackTsfn = pa[h].userData
            /\ tsfns[pa[h].userData].thread_count = 1
            /\ ~tsfns[pa[h].userData].closed

\* the real-time thread is at the BlockingCall of the first period of a
\* stream that openStreamAsync has just returned
C15_Witness ==
  /\ lastOp.op = "openStreamAsync"
  /\ lastOp.result = "ok"
  /\ rt.pc = "fill"
  /\ rt.h = g_streams[lastOp.id].stream
  /\ Len(periods) = 1

\* C16: in the calls of a closeStream and of a shutdown, every release of a
\* binding comes before every stop and close of a backend stream.
C16_ReleaseBeforeClose ==
  lastOp.op \in {"closeStream", "terminate"} =>
    \A i, j \in DOMAIN lastOp.steps :
      (/\ lastOp.steps[i].call \in {"releaseFill", "releaseEvent"}
       /\ lastOp.steps[j].call \in {"Pa_StopStream", "Pa_CloseStream"})
        => i < j

\* C17: Pa_CloseStream has been called on no backend stream that is still
\* registered, and exactly once on every backend stream whose entry
\* closeStream or a shutdown removed, also when Pa_StopStream failed.
C17_ClosedExactlyOnce ==
  \A h \in DOMAIN pa :
    pa[h].closeCalls = (IF h \in Registered THEN 0 ELSE 1)

\* C18: a fill invocation that has returned either completed its hand-off
\* (Continue, its call queued or served) or returned Abort having queued
\* nothing; and on a fill binding closeStream has released, a period that
\* begins afterwards starts no invocation: it queues no call and no handler
\* runs for it.
C18_CloseDuringFill ==
  \A p \in DOMAIN periods :
    /\ periods[p].outcome = "Continue" => (FillQueued(p) \/ FillRan(p))
    /\ periods[p].outcome = "Abort" => (~FillQueued(p) /\ ~FillRan(p))
    /\ (periods[p].tsfn \in releasedByClose /\ periods[p].afterClose)
         => (~FillQueued(p) /\ ~FillRan(p))

\* the next step of the real-time thread inside EmitStreamEvent
EmitStep ==
  \/ EmitStreamEventTest
  \/ AudioCallbackEmit
  \/ \E outcome \in {"old", "new", "lost", "crash"} :
       AudioCallbackEmitRaced(outcome)

\* C19: inside EmitStreamEvent the real-time thread can always take its next
\* step, whatever is pending on the queue; a call on a bound handler appends
\* one notification to that handler's queue and returns with no handler
\* having run; with no handler bound the call queues nothing, fails nothing
\* and returns; and the status the period returns is the one its fill call
\* produced, unchanged by the event calls.
C19_EventNeverBlocks ==
  /\ []((~crashed /\ rt.pc \in {"events", "emit"}) => ENABLED EmitStep)
  /\ [][/\ (rt.pc = "emit" /\ rt' # rt /\ g_eventCallbackTsfn = rt.evp)
           => /\ tsfns' = [tsfns EXCEPT ![rt.evp].queue =
                             Append(@, [period |-> Len(periods),
                                        type |-> FlagOrder[rt.i]])]
              /\ rt'.pc \in {"events", "return"}
              /\ crashed' = crashed
        /\ (rt.pc = "events" /\ rt' # rt /\ g_eventCallbackTsfn = 0)
           => /\ tsfns' = tsfns
              /\ rt'.pc \in {"events", "return"}
              /\ crashed' = crashed
        /\ (rt.pc \in {"events", "emit"}) => rt'.status = rt.status
        /\ (rt.pc = "return" /\ rt' # rt)
           => /\ periods'[Len(periods)].outcome = CallbackResult(rt.status)
              /\ periods'[Len(periods)].outcome = "Continue"
                   <=> (FillQueued(Len(periods)) \/ FillRan(Len(periods)))]_vars

\* a notification was queued behind three that no handler has served yet,
\* and the real-time thread went on to its return
C19_Witness ==
  /\ \E t \in DOMAIN tsfns :
       /\ Len(tsfns[t].queue) = 4
       /\ \A i \in DOMAIN tsfns[t].queue : IsEvent(tsfns[t].queue[i])
       /\ tsfns[t].ran = <<>>
  /\ rt.pc = "return"

\* C20: every registered callback-driven stream whose backend stream is
\* running has a live fill binding: the userData handed to the backend at
\* open time is the function g_audioCallbackTsfn holds, and that function
\* has not been released.
C20_FillBindingLive ==
  \A id \in DOMAIN g_streams :
    LET h == g_streams[id].stream
    IN (pa[h].userData # 0 /\ pa[h].state = "active")
         => /\ g_audioCallbackTsfn = pa[h].userData
            /\ tsfns[pa[h].userData].thread_count = 1

=============================================================================
